---- MODULE Spec2Model ----
(***************************************************************************)
(* Model of the helpdesk report bot (CheckApplicationStatusBot).           *)
(*                                                                         *)
(*   - the chat registry: load_chat_ids / save_chat_ids / track_chat_id    *)
(*     over the file chat_ids.json and the global tracked_chat_ids;        *)
(*   - the scheduled broadcast send_new_tickets_job, split at its awaits;  *)
(*   - the inbound handlers (commands, buttons, callbacks);                *)
(*   - the digest composer compose_new_tickets_summary over a database.    *)
(*                                                                         *)
(* The specifications share the variables:                                 *)
(*   Spec         the running bot: job, handlers, manual edits of the file *)
(*   SpecCycle    the job alone while the tickets change                   *)
(*   SpecHandlers every handler, without the job                           *)
(*   SpecLoad     load_chat_ids applied to every bounded file content      *)
(*   SpecSummary  compose_new_tickets_summary applied to bounded databases *)
(*   SpecList     the itemized composers applied to bounded databases      *)
(*   SpecService  MySQLTicketService: construction and query calls         *)
(***************************************************************************)
EXTENDS Integers, Sequences, FiniteSets, TLC

\* ---------------------------------------------------------------- bounds
MaxChat == 3
MaxFileLen == 3
MaxRows == 2
MaxText == 2

ChatIds == 1..MaxChat

\* Python's None for the optional integer columns and for "no chat".
None == 0 - 1

\* A one-letter string: what set("a") or set({"a": 1}) holds when chat_ids is a
\* string or an object instead of a list.  It is no chat id.
StrChar == 0 - 2

Range(s) == {s[i] : i \in 1..Len(s)}

SeqsUpTo(S, n) == UNION {[1..k -> S] : k \in 0..n}

RECURSIVE SetToSeq(_)
SetToSeq(S) ==
    IF S = {} THEN <<>>
    ELSE LET m == CHOOSE x \in S : \A y \in S : x <= y
         IN <<m>> \o SetToSeq(S \ {m})

RECURSIVE SumSeq(_)
SumSeq(s) == IF s = <<>> THEN 0 ELSE Head(s) + SumSeq(Tail(s))

VARIABLES
    file,               \* content of chat_ids.json
    tracked_chat_ids,   \* the global in-memory registry
    pc,                 \* send_new_tickets_job: "idle" or "sending" (suspended in a send)
    pending,            \* chats of the iteration copy not yet sent to
    text,               \* the digest composed for the running cycle
    successful_sends,   \* the job's counter
    failed_sends,       \* the job's counter
    loaded,             \* history: the registry as loaded at the last trigger
    attempted,          \* history: chats a send was attempted to this cycle
    permFailed,         \* history: chats whose send failed permanently this cycle
    softFailed,         \* history: chats whose send failed otherwise this cycle
    addedInCycle,       \* history: chats tracked by handlers since the last trigger
    edited,             \* history: the file was edited by hand since the last trigger
    manualAdded,        \* history: ids put into the file by hand since the last trigger
    db,                 \* the ticket database
    env,                \* the environment's table names and database name
    ticket_service,     \* the global ticket_service: NoService or the constructed object
    conn,               \* the connection pool and _execute_query's position
    result,             \* SpecLoad, SpecSummary, SpecList: what the applied function returned
    last                \* history: the last operation and what it did

vars == <<file, tracked_chat_ids, pc, pending, text, successful_sends, failed_sends,
          loaded, attempted, permFailed, softFailed, addedInCycle, edited, manualAdded, db,
          env, ticket_service, conn, result, last>>

\* ------------------------------------------------------- the registry file
\* A file is [kind, items]:
\*   "missing"     no such file
\*   "unreadable"  open() raises
\*   "badjson"     json.load raises
\*   "toplist"     valid JSON whose root is not an object
\*   "nokey"       an object without "chat_ids"
\*   "keynull"     "chat_ids" is null
\*   "keynumber"   "chat_ids" is a number
\*   "keystring"   "chat_ids" is a string; items are its characters
\*   "keyobject"   "chat_ids" is an object; items are its keys (strings)
\*   "keylist"     "chat_ids" is a list; items are its elements
FileOf(k, s) == [kind |-> k, items |-> s]

BrokenKinds ==
    {"missing", "unreadable", "badjson", "toplist", "nokey", "keynull", "keynumber"}

\* The files an operator's edit leaves in the running bot's model: a list of
\* chat ids, no file, or a file that is not JSON.
MainFiles ==
    {FileOf("keylist", SetToSeq(S)) : S \in SUBSET ChatIds}
    \cup {FileOf("missing", <<>>), FileOf("badjson", <<>>)}

AllFiles ==
    {FileOf(k, <<>>) : k \in BrokenKinds}
    \cup {FileOf("keystring", s) : s \in SeqsUpTo({StrChar}, 2)}
    \cup {FileOf("keyobject", s) : s \in SeqsUpTo({StrChar}, 1)}
    \cup {FileOf("keylist", s) : s \in SeqsUpTo(ChatIds, MaxFileLen)}

\* load_chat_ids: [raised, ids].
load_chat_ids(f) ==
    IF f.kind = "missing" THEN [raised |-> FALSE, ids |-> {}]
    ELSE IF f.kind \in {"unreadable", "badjson"} THEN [raised |-> FALSE, ids |-> {}]
    ELSE IF f.kind = "toplist" THEN [raised |-> FALSE, ids |-> {}]
    ELSE IF f.kind = "nokey" THEN [raised |-> FALSE, ids |-> {}]
    ELSE IF f.kind \in {"keynull", "keynumber"} THEN [raised |-> FALSE, ids |-> {}]
    ELSE [raised |-> FALSE, ids |-> Range(f.items)]

\* save_chat_ids: the file after json.dump({"chat_ids": list(chat_ids)}).
save_chat_ids(chat_ids) == FileOf("keylist", SetToSeq(chat_ids))

\* track_chat_id saving outside the "not in" test.
track_chat_id_always_saves(chat_id, tracked, f) ==
    [tracked |-> tracked \cup {chat_id},
     file |-> save_chat_ids(tracked \cup {chat_id}),
     wrote |-> TRUE]

\* track_chat_id on (tracked_chat_ids, file): the new pair and whether it wrote.
track_chat_id(chat_id, tracked, f) ==
    IF chat_id \notin tracked
    THEN [tracked |-> tracked \cup {chat_id},
          file |-> save_chat_ids(tracked \cup {chat_id}),
          wrote |-> TRUE]
    ELSE [tracked |-> tracked, file |-> f, wrote |-> FALSE]

\* ------------------------------------------------------------ the database
\* A text is a sequence of pieces: a piece is one of the characters "&", "<",
\* ">" or a run of other characters (a word, a digit, a placeholder).
NoString == <<>>

\* The columns main.py reads from a ticket that the Ticket dataclass of
\* models.py does not declare: title (the contact field), category_id,
\* subcategory_id.
TicketExtra(title, c, sc) == [title |-> title, category_id |-> c, subcategory_id |-> sc]

\* A ticket row.  The optional text columns hold NoString for NULL and for "":
\* the composers read them as `column or placeholder`, which takes both alike.
Ticket(u, s, b, description, cabinet, extra) ==
    [user_id |-> u, specialist_id |-> s, building_id |-> b,
     description |-> description, cabinet |-> cabinet,
     title |-> extra.title, category_id |-> extra.category_id,
     subcategory_id |-> extra.subcategory_id]

\* A ticket row with nothing but the columns the composers group by.
Row(u, s, b) == Ticket(u, s, b, NoString, NoString, TicketExtra(NoString, None, None))

BuildingIds == {1, 2}
SpecialistIds == {7, 8}

\* The label strings are modelled by their rank in string order; the raw id
\* string str(b) has rank b.
Labels == 1..3

\* id_to_description.get(key, key)
LabelOf(descriptions, key) ==
    IF key \in DOMAIN descriptions THEN descriptions[key] ELSE key

\* per_building, as the loop over new_rows builds it: [keys, count] where keys
\* lists the keys in insertion order; the key None is the bucket "не указан".
RECURSIVE CountByBuilding(_, _)
CountByBuilding(rows, acc) ==
    IF rows = <<>> THEN acc
    ELSE LET k == Head(rows).building_id
             nxt == IF k \in Range(acc.keys)
                    THEN [acc EXCEPT !.count[k] = @ + 1]
                    ELSE [keys |-> Append(acc.keys, k), count |-> acc.count @@ (k :> 1)]
         IN CountByBuilding(Tail(rows), nxt)

per_building(rows) == CountByBuilding(rows, [keys |-> <<>>, count |-> <<>>])

\* sorted(..., key=label): a stable insertion of x into the sorted sequence s.
RECURSIVE InsertByLabel(_, _, _)
InsertByLabel(x, s, descriptions) ==
    IF s = <<>> THEN <<x>>
    ELSE IF LabelOf(descriptions, x) < LabelOf(descriptions, Head(s))
         THEN <<x>> \o s
         ELSE <<Head(s)>> \o InsertByLabel(x, Tail(s), descriptions)

RECURSIVE SortByLabel(_, _)
SortByLabel(keys, descriptions) ==
    IF keys = <<>> THEN <<>>
    ELSE InsertByLabel(keys[Len(keys)], SortByLabel(SubSeq(keys, 1, Len(keys) - 1), descriptions),
                       descriptions)

\* regular_buildings without its filter.
regular_buildings_unfiltered(keys) == keys

\* regular_buildings: the keys of per_building other than "не указан".
regular_buildings(keys) == SelectSeq(keys, LAMBDA k : k # None)

\* per_specialist_building, as the loop over taken_rows builds it; rows without a
\* specialist are skipped.  A key is <<specialist_id, building_key>>.
RECURSIVE CountBySpecialist(_, _)
CountBySpecialist(rows, acc) ==
    IF rows = <<>> THEN acc
    ELSE LET t == Head(rows)
             k == <<t.specialist_id, t.building_id>>
             nxt == IF t.specialist_id = None THEN acc
                    ELSE IF k \in Range(acc.keys)
                    THEN [acc EXCEPT !.count[k] = @ + 1]
                    ELSE [keys |-> Append(acc.keys, k), count |-> acc.count @@ (k :> 1)]
         IN CountBySpecialist(Tail(rows), nxt)

per_specialist_building(rows) == CountBySpecialist(rows, [keys |-> <<>>, count |-> <<>>])

\* sorted(per_specialist_building.items()) compares two keys of one specialist by
\* their building keys: an int against the string "не указан" is a TypeError.
SortRaises(keys) ==
    \E i, j \in 1..Len(keys) :
        /\ keys[i][1] = keys[j][1]
        /\ keys[i][2] = None
        /\ keys[j][2] # None

KeyLess(a, b) == a[1] < b[1] \/ (a[1] = b[1] /\ a[2] < b[2])

RECURSIVE InsertKey(_, _)
InsertKey(x, s) ==
    IF s = <<>> THEN <<x>>
    ELSE IF KeyLess(x, Head(s)) THEN <<x>> \o s
         ELSE <<Head(s)>> \o InsertKey(x, Tail(s))

RECURSIVE SortKeys(_)
SortKeys(keys) ==
    IF keys = <<>> THEN <<>>
    ELSE InsertKey(keys[Len(keys)], SortKeys(SubSeq(keys, 1, Len(keys) - 1)))

\* The fallback the wrong way round: "new" first, "available" when it is empty.
new_bucket_prefers_new(d) == IF d.new # <<>> THEN d.new ELSE d.available

\* The rows compose_new_tickets_summary uses as its "new" bucket.
new_bucket(d) == IF d.available # <<>> THEN d.available ELSE d.new

specialist_ids(rows) == {rows[i].specialist_id : i \in 1..Len(rows)} \ {None}

\* The queries compose_new_tickets_summary issues on database d, in order.
SummaryQueries(d) ==
    <<"available">>
    \o (IF d.available = <<>> THEN <<"new">> ELSE <<>>)
    \o <<"taken">>
    \o (IF new_bucket(d) # <<>> THEN <<"buildings">> ELSE <<>>)
    \o (IF d.taken # <<>> /\ specialist_ids(d.taken) # {}
        THEN <<"users", "buildings">> ELSE <<>>)

NoSummary ==
    [raised |-> FALSE, queries |-> <<>>, bucket |-> <<>>, total |-> 0,
     lines |-> <<>>, other |-> 0, taken |-> <<>>]

\* compose_new_tickets_summary on database d when query number failAt raises
\* (0: none does).  lines are the per-building lines [key, label, count] in the
\* order emitted, other the count of the "Другое" line (0: no such line), taken
\* the in-progress lines.
compose_new_tickets_summary(d, failAt) ==
    LET plan == SummaryQueries(d)
        new_rows == new_bucket(d)
        pb == per_building(new_rows)
        regular == regular_buildings(pb.keys)
        sorted_buildings == SortByLabel(regular, d.descriptions)
        psb == per_specialist_building(d.taken)
        has_taken == d.taken # <<>> /\ specialist_ids(d.taken) # {}
        sorted_keys == SortKeys(psb.keys)
    IN IF failAt \in 1..Len(plan)
       THEN [NoSummary EXCEPT !.raised = TRUE, !.queries = SubSeq(plan, 1, failAt)]
       ELSE IF has_taken /\ SortRaises(psb.keys)
       THEN [NoSummary EXCEPT !.raised = TRUE, !.queries = plan]
       ELSE [raised |-> FALSE,
             queries |-> plan,
             bucket |-> new_rows,
             total |-> Len(new_rows),
             lines |-> [i \in 1..Len(sorted_buildings) |->
                          [key |-> sorted_buildings[i],
                           label |-> LabelOf(d.descriptions, sorted_buildings[i]),
                           count |-> pb.count[sorted_buildings[i]]]],
             other |-> IF None \in Range(pb.keys) THEN pb.count[None] ELSE 0,
             taken |-> IF has_taken
                       THEN [i \in 1..Len(sorted_keys) |->
                               [specialist |-> sorted_keys[i][1],
                                known |-> sorted_keys[i][1] \in d.users,
                                building |-> sorted_keys[i][2],
                                count |-> psb.count[sorted_keys[i]]]]
                       ELSE <<>>]

\* ------------------------------------------------------ the itemized lists
Digits == <<"0", "1", "2", "3", "4", "5", "6", "7", "8", "9">>

\* str(n) of an id.
str(n) == <<Digits[n + 1]>>

Amp == <<"&", "amp;">>
Lt == <<"&", "lt;">>
Gt == <<"&", "gt;">>

\* s.replace(old, new) for a one-character old.
RECURSIVE replace(_, _, _)
replace(s, old, new) ==
    IF s = <<>> THEN <<>>
    ELSE (IF Head(s) = old THEN new ELSE <<Head(s)>>) \o replace(Tail(s), old, new)

\* esc replacing "&" after "<" and ">".
esc_amp_last(value) == replace(replace(replace(value, "<", Lt), ">", Gt), "&", Amp)

\* esc: s.replace("&", "&amp;").replace("<", "&lt;").replace(">", "&gt;")
esc(value) == replace(replace(replace(value, "&", Amp), "<", Lt), ">", Gt)

\* User.full_name of the users the bounded databases hold: user 7 has a name
\* with an ampersand, users 8 and 9 have no name and show as "ID {id}".
full_name(u) == IF u = 7 THEN <<"Ali ", "&", " Co">> ELSE <<"ID ">> \o str(u)

\* The text of a building description, which the model knows by its rank.
DescriptionText(rank) == <<"corpus ">> \o str(rank)

\* fetch_building_descriptions as the itemized composers use it:
\* buildings_dict.get(str(building_id), str(building_id)).
building_text(descriptions, b) ==
    IF b \in DOMAIN descriptions THEN DescriptionText(descriptions[b]) ELSE str(b)

\* name_ru of category c and of its one subcategory (both have the id c).
CategoryName(c) == <<"cat ", "<">> \o str(c) \o <<">">>
SubCategoryName(c) == <<"sub ">> \o str(c)

\* categories_dict / subcategories_dict .get(id, f"ID {id}"): the database holds
\* the categories 1..d.categories, each with one subcategory.
category_name(d, c) ==
    IF c = None THEN <<"not specified">>
    ELSE IF c \in 1..d.categories THEN CategoryName(c) ELSE <<"ID ">> \o str(c)

subcategory_name(d, c) ==
    IF c = None THEN <<"not specified">>
    ELSE IF c \in 1..d.categories THEN SubCategoryName(c) ELSE <<"ID ">> \o str(c)

\* if user_id: users_dict.get(user_id) -> full_name, else "ID {user_id}"
applicant_name(d, u) ==
    IF u = None THEN <<"not specified">>
    ELSE IF u \in d.users THEN full_name(u) ELSE <<"ID ">> \o str(u)

\* users_dict.get(specialist_id).full_name if specialist_id else "не указан":
\* .full_name of None raises AttributeError.
specialist_name(d, sp) ==
    IF sp = None THEN [raised |-> FALSE, name |-> <<"not specified">>]
    ELSE IF sp \in d.users THEN [raised |-> FALSE, name |-> full_name(sp)]
    ELSE [raised |-> TRUE, name |-> <<>>]

\* `column or placeholder`
OrElse(value, placeholder) == IF value = NoString THEN placeholder ELSE value

\* One line of a ticket block: the value and the text embedded for it.
Line(field, value) == [field |-> field, value |-> value, text |-> esc(value)]

\* ticket_lines of a ticket (the first line, the ticket's number, is left out).
ticket_lines(d, t) ==
    << Line("applicant", applicant_name(d, t.user_id)),
       Line("category", category_name(d, t.category_id)),
       Line("subcategory", subcategory_name(d, t.subcategory_id)),
       Line("contacts", t.title),
       Line("description", OrElse(t.description, <<"not specified">>)),
       Line("building", IF t.building_id = None THEN <<"not specified">>
                        ELSE building_text(d.descriptions, t.building_id)),
       Line("cabinet", OrElse(t.cabinet, <<"not specified">>)) >>

\* The queries an itemized composer issues for its rows.
ListQueries(d, rows, ids) ==
    <<"tickets">>
    \o (IF rows = <<>> THEN <<>>
        ELSE (IF ids # {} THEN <<"users">> ELSE <<>>)
             \o <<"buildings", "categories">>
             \o [i \in 1..d.categories |-> "subcategories"])

user_ids(rows) == {rows[i].user_id : i \in 1..Len(rows)} \ {None}

NoList == [raised |-> FALSE, queries |-> <<>>, count |-> 0, blocks |-> <<>>]

\* compose_new_tickets_list: [raised, queries, count, blocks]: count is the
\* number in the first line, blocks the blockquotes after it.
compose_new_tickets_list(d, failAt) ==
    LET plan == ListQueries(d, d.new, user_ids(d.new))
    IN IF failAt \in 1..Len(plan)
       THEN [NoList EXCEPT !.raised = TRUE, !.queries = SubSeq(plan, 1, failAt)]
       ELSE [raised |-> FALSE, queries |-> plan, count |-> Len(d.new),
             blocks |-> [i \in 1..Len(d.new) |-> ticket_lines(d, d.new[i])]]

\* compose_taken_tickets_list: [raised, queries, count, blocks].
compose_taken_tickets_list(d, failAt) ==
    LET plan == ListQueries(d, d.taken, user_ids(d.taken) \cup specialist_ids(d.taken))
        names == [i \in 1..Len(d.taken) |-> specialist_name(d, d.taken[i].specialist_id)]
    IN IF failAt \in 1..Len(plan)
       THEN [NoList EXCEPT !.raised = TRUE, !.queries = SubSeq(plan, 1, failAt)]
       ELSE IF \E i \in 1..Len(d.taken) : names[i].raised
       THEN [NoList EXCEPT !.raised = TRUE, !.queries = plan]
       ELSE [raised |-> FALSE, queries |-> plan, count |-> Len(d.taken),
             blocks |-> [i \in 1..Len(d.taken) |->
                           Append(ticket_lines(d, d.taken[i]),
                                  Line("specialist", names[i].name))]]

\* ------------------------------------------------------- bounded databases
NewRowSeqs ==
    {[i \in 1..Len(bs) |-> Row(None, None, bs[i])] :
        bs \in SeqsUpTo(BuildingIds \cup {None}, MaxRows)}

TakenSamples ==
    { <<>>,
      <<Row(None, None, 1)>>,
      <<Row(None, 7, 1), Row(None, 7, 1), Row(None, 8, None)>>,
      <<Row(None, 7, 1), Row(None, 7, None)>>,
      <<Row(None, 8, 2), Row(None, 7, 2)>> }

DescriptionSamples == { <<>>, (1 :> 3) @@ (2 :> 2), (1 :> 3) @@ (2 :> 3) }

DbOf(a, n, t, ds, us, c) ==
    [available |-> a, new |-> n, taken |-> t, descriptions |-> ds, users |-> us,
     categories |-> c]

AllDbs ==
    {DbOf(a, n, t, ds, us, 1) :
        a \in NewRowSeqs, n \in NewRowSeqs, t \in TakenSamples,
        ds \in DescriptionSamples, us \in {{}, {7}}}

EmptyDb == DbOf(<<>>, <<>>, <<>>, <<>>, {}, 1)

BusyDb ==
    DbOf(<<>>, <<Row(7, None, 1), Row(None, None, None)>>,
         <<Row(None, 7, 1), Row(None, 7, 1)>>, (1 :> 3) @@ (2 :> 2), {7}, 1)

MainDbs == {EmptyDb, BusyDb}

\* The texts a free-text column holds: every text of up to MaxText pieces, and
\* the text <script>&</script>.
TextPieces == {"&", "<", ">", "a"}

ScriptText == <<"<", "script", ">", "&", "<", "/script", ">">>

Texts == SeqsUpTo(TextPieces, MaxText) \cup {ScriptText}

\* Tickets that differ in their description, and tickets that differ in the
\* lookups they need: no references at all; requester, specialist, building and
\* category all known; requester 9 and category 5 in no lookup, specialist 8.
TextTickets ==
    {Ticket(7, 7, 1, description, <<"2", "<", "3">>, TicketExtra(<<"+7 701">>, 1, 1)) :
        description \in Texts}

SampleTickets ==
    { Row(None, None, None),
      Ticket(7, 7, 1, <<"a", ">", "b">>, <<"101">>, TicketExtra(<<"+7 701">>, 1, 1)),
      Ticket(9, 8, 2, NoString, NoString, TicketExtra(NoString, 5, 5)) }

ListRowSeqs == SeqsUpTo(SampleTickets, MaxRows) \cup {<<t>> : t \in TextTickets}

\* The databases of the itemized composers: the same rows under both statuses.
ListDbs ==
    {DbOf(<<>>, rows, rows, ds, us, c) :
        rows \in ListRowSeqs, ds \in {<<>>, (1 :> 3) @@ (2 :> 2)},
        us \in {{}, {7}, {7, 8}}, c \in {0, 1}}

\* ------------------------------------------------------ the ticket service
\* A name (a table, the database) is a sequence of pieces: "_" , another
\* character that is neither a letter nor a digit, or a run of letters and
\* digits.
NonAlnum == {"_", ";", " ", "-"}

\* str.isalnum(): not empty, letters and digits only.
isalnum(name) == name # <<>> /\ \A i \in 1..Len(name) : name[i] \notin NonAlnum

\* _is_safe_identifier: identifier.replace("_", "").isalnum()
is_safe_identifier(identifier) == isalnum(SelectSeq(identifier, LAMBDA c : c # "_"))

Tables == {"tickets", "buildings", "users", "categories", "subcategories"}

\* The tables __init__ passes to _is_safe_identifier.
ValidatedTables == {"tickets", "buildings", "categories", "subcategories"}

NoService == [constructed |-> FALSE, error |-> "none", tables |-> <<>>]

\* MySQLTicketService(): the object, or the error __init__ raises.  pool_ok says
\* whether MySQLConnectionPool(...) connects.
get_ticket_service(e, pool_ok) ==
    IF \E t \in ValidatedTables : ~is_safe_identifier(e.tables[t])
    THEN [NoService EXCEPT !.error = "ValueError"]
    ELSE IF e.db_name = <<>> THEN [NoService EXCEPT !.error = "ValueError"]
    ELSE IF ~pool_ok THEN [NoService EXCEPT !.error = "PoolError"]
    ELSE [constructed |-> TRUE, error |-> "none", tables |-> e.tables]

\* pool_size of the pool.
pool_size == 5

\* The query methods and the table each interpolates into its SQL text.
QueryMethods ==
    {"fetch_building_descriptions", "fetch_tickets_by_status", "fetch_users_by_id",
     "fetch_users_by_ids", "fetch_categories_by_department_id",
     "fetch_subcategories_by_category_id"}

TableOf(method) ==
    IF method = "fetch_building_descriptions" THEN "buildings"
    ELSE IF method = "fetch_tickets_by_status" THEN "tickets"
    ELSE IF method \in {"fetch_users_by_id", "fetch_users_by_ids"} THEN "users"
    ELSE IF method = "fetch_categories_by_department_id" THEN "categories"
    ELSE "subcategories"

\* conn: held counts the connections taken from the pool and not closed, at is
\* "idle" or "open" (inside _execute_query's try), method the running method,
\* sql the table name in the last SQL text built (<<>>: none built yet).
NoConn == [held |-> 0, at |-> "idle", method |-> "none", sql |-> <<>>]

\* What the cursor does inside the try.
QueryOutcomes == {"rows", "no rows", "cursor raises", "execute raises"}

\* connection.close() on the success path only.
closes_on_success(outcome) == outcome \in {"rows", "no rows"}

\* finally: connection.close()
closes(outcome) == TRUE

ServiceUnchanged == UNCHANGED <<env, ticket_service, conn>>

\* The names a table can be configured with: two safe ones, one with a
\* semicolon and a blank, one of underscores only.
TableNames ==
    {<<"users">>, <<"cat", "_", "building2">>, <<"users", ";", " ", "drop">>, <<"_", "_">>}

Envs ==
    {[tables |-> t, db_name |-> n] : t \in [Tables -> TableNames],
                                       n \in {<<>>, <<"helpdesk">>}}

\* The environment of the running bot: the default table names, DB_NAME set.
RunningEnv ==
    [tables |-> [t \in Tables |->
                    IF t = "tickets" THEN <<"DB", "_", "TICKETS">>
                    ELSE IF t = "buildings" THEN <<"cat", "_", "building">>
                    ELSE IF t = "users" THEN <<"users">>
                    ELSE IF t = "categories" THEN <<"helpdesk", "_", "categories">>
                    ELSE <<"helpdesk", "_", "subcategories">>],
     db_name |-> <<"helpdesk">>]

\* The service as the composers' first call constructed it.
ServiceUp ==
    /\ env = RunningEnv
    /\ ticket_service = get_ticket_service(RunningEnv, TRUE)
    /\ conn = NoConn

\* --------------------------------------------------------------- handlers
\* The updates the bot handles: commands, the three reply-keyboard buttons and
\* any other text, the inline keyboard's callbacks, chat-member updates.
Commands ==
    {"start", "help", "status", "tickets", "new", "taken",
     "btn:new", "btn:taken", "btn:status", "echo",
     "menu:new", "menu:taken", "menu:status", "menu:other", "chat_member"}

SummaryCommands == {"tickets", "btn:status", "menu:status"}
NewListCommands == {"new", "btn:new", "menu:new"}
TakenListCommands == {"taken", "btn:taken", "menu:taken"}
\* Every handler calls track_chat_id first and touches the registry nowhere
\* else; beside the job the model runs one of them (SpecHandlers runs all).
MainCommands == {"start"}

DigestCommands == SummaryCommands \cup NewListCommands \cup TakenListCommands

\* What the composer a command calls does: [raised, queries].
Composed(cmd, d, failAt) ==
    IF cmd \in SummaryCommands
    THEN LET r == compose_new_tickets_summary(d, failAt)
         IN [raised |-> r.raised, queries |-> r.queries]
    ELSE IF cmd \in NewListCommands
    THEN LET r == compose_new_tickets_list(d, failAt)
         IN [raised |-> r.raised, queries |-> r.queries]
    ELSE IF cmd \in TakenListCommands
    THEN LET r == compose_taken_tickets_list(d, failAt)
         IN [raised |-> r.raised, queries |-> r.queries]
    ELSE [raised |-> FALSE, queries |-> <<>>]

\* The handler without its try/except.
DigestReplyUncaught(cmd, composed) ==
    IF composed.raised
    THEN [out |-> "none", raised |-> TRUE]
    ELSE [out |-> "digest", raised |-> FALSE]

\* The handler of a digest command: try compose / except Exception: the reply
\* sent and whether the exception left the handler.
DigestReply(cmd, composed) ==
    IF composed.raised
    THEN [out |-> "try_later", raised |-> FALSE]
    ELSE [out |-> "digest", raised |-> FALSE]

\* The reply of the other handlers.
PlainReply(cmd) ==
    IF cmd \in {"start", "status"} THEN [out |-> "bot_status", raised |-> FALSE]
    ELSE IF cmd = "help" THEN [out |-> "help", raised |-> FALSE]
    ELSE IF cmd = "echo" THEN [out |-> "echo", raised |-> FALSE]
    ELSE IF cmd = "menu:other" THEN [out |-> "markup", raised |-> FALSE]
    ELSE [out |-> "none", raised |-> FALSE]

Idle(op) ==
    [op |-> op, chat |-> None, out |-> "none", wrote |-> FALSE, raised |-> FALSE,
     dbFailed |-> FALSE, queries |-> <<>>]

NoText == [NoSummary EXCEPT !.queries = <<"none">>]

JobUnchanged ==
    UNCHANGED <<pc, pending, text, successful_sends, failed_sends, loaded,
                attempted, permFailed, softFailed, edited, manualAdded>>

\* An update from chat `chat` handled by the handler of `cmd`: track_chat_id,
\* then the composer (where query failAt raises), then the reply.
Handle(cmd, chat, failAt) ==
    LET t == track_chat_id(chat, tracked_chat_ids, file)
        c == Composed(cmd, db, failAt)
        r == IF cmd \in DigestCommands THEN DigestReply(cmd, c) ELSE PlainReply(cmd)
    IN /\ tracked_chat_ids' = t.tracked
       /\ file' = t.file
       /\ addedInCycle' = IF t.wrote THEN addedInCycle \cup {chat} ELSE addedInCycle
       /\ last' = [op |-> cmd, chat |-> chat, out |-> r.out, wrote |-> t.wrote,
                   raised |-> r.raised, dbFailed |-> failAt # 0, queries |-> c.queries]
       /\ JobUnchanged
       /\ ServiceUnchanged
       /\ UNCHANGED <<db, result>>

\* ------------------------------------------------------ the scheduled job
SendOutcomes ==
    {"ok", "chat not found", "bot was blocked", "unauthorized", "timed out", "exception"}

\* The outcomes that say the chat is gone for good.
PermanentOutcomes == {"chat not found", "bot was blocked", "unauthorized"}

\* The outcomes that are a TelegramError.
TelegramErrors == {"chat not found", "bot was blocked", "unauthorized", "timed out"}

\* The same test with "unauthorized" forgotten.
is_permanent_without_unauthorized(error_msg) ==
    error_msg \in {"chat not found", "bot was blocked"}

\* The same test taking a timeout for a permanent error as well.
is_permanent_or_timeout(error_msg) ==
    error_msg \in {"chat not found", "bot was blocked", "unauthorized", "timed out"}

\* The test on str(e).lower() that decides the removal.
is_permanent(error_msg) ==
    error_msg \in {"chat not found", "bot was blocked", "unauthorized"}

\* The empty check left out.
registry_empty_never(ids) == FALSE

\* if not tracked_chat_ids: return
registry_empty(ids) == ids = {}

\* The loop iterating the set held before the reload.
send_targets_stale(reloaded, before) == before

\* The set the loop iterates: tracked_chat_ids.copy() after the reload.
send_targets(reloaded, before) == reloaded

\* The pruning done on the chats the job loaded (a set of its own) instead of
\* the shared tracked_chat_ids.
after_send_prunes_copy(chat_id, outcome, tracked, f) ==
    IF outcome \in PermanentOutcomes
    THEN [tracked |-> (tracked \cap loaded) \ {chat_id},
          file |-> save_chat_ids((tracked \cap loaded) \ {chat_id}),
          wrote |-> TRUE, ok |-> 0, failed |-> 1]
    ELSE [tracked |-> tracked, file |-> f, wrote |-> FALSE,
          ok |-> IF outcome = "ok" THEN 1 ELSE 0,
          failed |-> IF outcome = "ok" THEN 0 ELSE 1]

\* One pass of the loop body for chat_id with the send's outcome.
after_send(chat_id, outcome, tracked, f) ==
    IF outcome = "ok"
    THEN [tracked |-> tracked, file |-> f, wrote |-> FALSE, ok |-> 1, failed |-> 0]
    ELSE IF outcome \in TelegramErrors /\ is_permanent(outcome)
    THEN [tracked |-> tracked \ {chat_id}, file |-> save_chat_ids(tracked \ {chat_id}),
          wrote |-> TRUE, ok |-> 0, failed |-> 1]
    ELSE [tracked |-> tracked, file |-> f, wrote |-> FALSE, ok |-> 0, failed |-> 1]

\* The digest composed again for each send.
send_text_recomputed(composed, d) == compose_new_tickets_summary(d, 0)

\* The text a send carries: the local `text` composed before the loop.
send_text(composed, d) == composed

\* The sends going out although composing the digest raised.
cycle_runs_despite_failure(skip, raised) == ~skip

\* The job reaches its loop when the registry is not empty and
\* compose_new_tickets_summary() returned; otherwise it returns (the empty
\* check) or its outer except logs the exception.
cycle_runs(skip, raised) == ~skip /\ ~raised

\* The loop left at the first send that raises something else than a
\* TelegramError.
remaining_abort_on_exception(todo, chat_id, outcome) ==
    IF outcome = "exception" THEN {} ELSE todo \ {chat_id}

\* The chats of the iteration copy still to come after the pass for chat_id:
\* both except clauses end inside the loop body, whatever the outcome.
remaining(todo, chat_id, outcome) == todo \ {chat_id}

\* The job from its trigger to its first await: reload, the empty check, the
\* digest (where query failAt raises); the outer except ends a failed run.
Trigger(failAt) ==
    /\ pc = "idle"
    /\ LET l == load_chat_ids(file)
           reloaded == IF l.raised THEN tracked_chat_ids ELSE l.ids
           skip == l.raised \/ registry_empty(reloaded)
           c == compose_new_tickets_summary(db, failAt)
           run == cycle_runs(skip, c.raised)
       IN /\ tracked_chat_ids' = reloaded
          /\ pending' = IF run THEN send_targets(reloaded, tracked_chat_ids) ELSE {}
          /\ pc' = IF pending' # {} THEN "sending" ELSE "idle"
          /\ text' = IF pending' # {} THEN c ELSE NoText
          /\ loaded' = reloaded
          /\ last' = [op |-> "trigger", chat |-> None,
                      out |-> IF l.raised THEN "job_failed"
                              ELSE IF registry_empty(reloaded) THEN "skipped"
                              ELSE IF c.raised THEN "job_failed" ELSE "composed",
                      wrote |-> FALSE, raised |-> FALSE,
                      dbFailed |-> ~skip /\ failAt # 0,
                      queries |-> IF skip THEN <<>> ELSE c.queries]
    /\ successful_sends' = 0
    /\ failed_sends' = 0
    /\ attempted' = {}
    /\ permFailed' = {}
    /\ softFailed' = {}
    /\ addedInCycle' = {}
    /\ edited' = FALSE
    /\ manualAdded' = {}
    /\ ServiceUnchanged
    /\ UNCHANGED <<file, db, result>>

\* The job resumed from the send to chat_id with its outcome, up to the next
\* await (or to the end of the loop).
SendStep(chat_id, outcome) ==
    /\ pc = "sending"
    /\ chat_id \in pending
    /\ LET a == after_send(chat_id, outcome, tracked_chat_ids, file)
       IN /\ tracked_chat_ids' = a.tracked
          /\ file' = a.file
          /\ successful_sends' = successful_sends + a.ok
          /\ failed_sends' = failed_sends + a.failed
          /\ last' = [op |-> "send", chat |-> chat_id, out |-> outcome, wrote |-> a.wrote,
                      raised |-> FALSE, dbFailed |-> FALSE, queries |-> <<>>,
                      sent |-> send_text(text, db)]
    /\ permFailed' = IF outcome \in PermanentOutcomes
                     THEN permFailed \cup {chat_id} ELSE permFailed
    /\ softFailed' = IF outcome \notin PermanentOutcomes \cup {"ok"}
                     THEN softFailed \cup {chat_id} ELSE softFailed
    /\ pending' = remaining(pending, chat_id, outcome)
    /\ attempted' = attempted \cup {chat_id}
    /\ pc' = IF pending' = {} THEN "idle" ELSE "sending"
    /\ text' = IF pending' = {} THEN NoText ELSE text
    /\ ServiceUnchanged
    /\ UNCHANGED <<loaded, addedInCycle, edited, manualAdded, db, result>>

\* ------------------------------------------------------- the environment
\* The operator rewrites chat_ids.json by hand.  The bot reads the file only at
\* a trigger, so of the edits made between two triggers only the last one is
\* ever seen: the model takes one edit per period.
ManualEdit(f) ==
    /\ ~edited
    /\ f # file
    /\ file' = f
    /\ edited' = TRUE
    /\ manualAdded' = (manualAdded \cup (load_chat_ids(f).ids \ load_chat_ids(file).ids))
                        \cap load_chat_ids(f).ids
    /\ last' = Idle("edit")
    /\ UNCHANGED <<tracked_chat_ids, pc, pending, text, successful_sends, failed_sends,
                   loaded, attempted, permFailed, softFailed, addedInCycle, db, result>>
    /\ ServiceUnchanged

\* The helpdesk changes the tickets.
DbChange(d) ==
    /\ d # db
    /\ db' = d
    /\ last' = Idle("db")
    /\ JobUnchanged
    /\ ServiceUnchanged
    /\ UNCHANGED <<file, tracked_chat_ids, addedInCycle, result>>

NoResult == [raised |-> FALSE]

\* ----------------------------------------------------------- the running bot
\* The state after the module is imported: the registry loaded, the announce
\* chat (when configured) merged and saved.
Init ==
    /\ \E f0 \in MainFiles, ANNOUNCE_CHAT_ID \in {None, 1} :
         LET ids == load_chat_ids(f0).ids
             add == ANNOUNCE_CHAT_ID # None /\ ANNOUNCE_CHAT_ID \notin ids
         IN /\ tracked_chat_ids = IF add THEN ids \cup {ANNOUNCE_CHAT_ID} ELSE ids
            /\ file = IF add THEN save_chat_ids(ids \cup {ANNOUNCE_CHAT_ID}) ELSE f0
    /\ pc = "idle"
    /\ pending = {}
    /\ text = NoText
    /\ successful_sends = 0
    /\ failed_sends = 0
    /\ loaded = {}
    /\ attempted = {}
    /\ permFailed = {}
    /\ softFailed = {}
    /\ addedInCycle = {}
    /\ edited = FALSE
    /\ manualAdded = {}
    /\ db = BusyDb      \* SpecCycle runs the job over the other databases
    /\ ServiceUp
    /\ result = NoResult
    /\ last = Idle("init")

Next ==
    \/ \E failAt \in 0..Len(SummaryQueries(db)) : Trigger(failAt)
    \/ \E c \in ChatIds, o \in SendOutcomes : SendStep(c, o)
    \/ \E cmd \in MainCommands, c \in ChatIds : Handle(cmd, c, 0)
    \/ \E f \in MainFiles : ManualEdit(f)

Spec == Init /\ [][Next]_vars

\* ------------------------------------- the job while the tickets change
\* The job alone, triggered again and again, over a database the helpdesk
\* changes between and during its sends.
CycleDbs ==
    MainDbs
    \cup {DbOf(<<Row(None, None, 2)>>, <<>>, <<Row(None, 7, 1), Row(None, 7, None)>>,
               <<>>, {}, 1),
          DbOf(<<>>, <<Row(None, None, 2)>>, <<Row(None, 8, 2)>>, <<>>, {}, 1)}

InitCycle ==
    /\ \E S \in SUBSET {1, 2} :
          /\ file = save_chat_ids(S)
          /\ tracked_chat_ids = S
    /\ pc = "idle"
    /\ pending = {}
    /\ text = NoText
    /\ successful_sends = 0
    /\ failed_sends = 0
    /\ loaded = {}
    /\ attempted = {}
    /\ permFailed = {}
    /\ softFailed = {}
    /\ addedInCycle = {}
    /\ edited = FALSE
    /\ manualAdded = {}
    /\ db \in CycleDbs
    /\ ServiceUp
    /\ result = NoResult
    /\ last = Idle("init")

NextCycle ==
    \/ \E failAt \in 0..Len(SummaryQueries(db)) : Trigger(failAt)
    \/ \E c \in ChatIds, o \in SendOutcomes : SendStep(c, o)
    \/ \E d \in CycleDbs : DbChange(d)

SpecCycle == InitCycle /\ [][NextCycle]_vars

\* ------------------------------------------------- the bot without the job
\* Every handler and the helpdesk's changes; the job does not trigger.
HandlerDbs ==
    MainDbs
    \cup {DbOf(<<Row(None, None, 2)>>, <<>>, <<Row(None, 7, 1), Row(None, 7, None)>>,
               <<>>, {}, 1)}

HandlerChats == {1, 2}

InitHandlers ==
    /\ \E f0 \in {FileOf("missing", <<>>), FileOf("keylist", <<2>>)},
          ANNOUNCE_CHAT_ID \in {None, 1} :
         LET ids == load_chat_ids(f0).ids
             add == ANNOUNCE_CHAT_ID # None /\ ANNOUNCE_CHAT_ID \notin ids
         IN /\ tracked_chat_ids = IF add THEN ids \cup {ANNOUNCE_CHAT_ID} ELSE ids
            /\ file = IF add THEN save_chat_ids(ids \cup {ANNOUNCE_CHAT_ID}) ELSE f0
    /\ pc = "idle"
    /\ pending = {}
    /\ text = NoText
    /\ successful_sends = 0
    /\ failed_sends = 0
    /\ loaded = {}
    /\ attempted = {}
    /\ permFailed = {}
    /\ softFailed = {}
    /\ addedInCycle = {}
    /\ edited = FALSE
    /\ manualAdded = {}
    /\ db \in HandlerDbs
    /\ ServiceUp
    /\ result = NoResult
    /\ last = Idle("init")

NextHandlers ==
    \/ \E cmd \in Commands, c \in HandlerChats :
          \E failAt \in 0..Len(Composed(cmd, db, 0).queries) : Handle(cmd, c, failAt)
    \/ \E d \in HandlerDbs : DbChange(d)

SpecHandlers == InitHandlers /\ [][NextHandlers]_vars

\* --------------------------------------------- load_chat_ids as a function
Quiet ==
    /\ tracked_chat_ids = {}
    /\ pc = "idle"
    /\ pending = {}
    /\ text = NoText
    /\ successful_sends = 0
    /\ failed_sends = 0
    /\ loaded = {}
    /\ attempted = {}
    /\ permFailed = {}
    /\ softFailed = {}
    /\ addedInCycle = {}
    /\ edited = FALSE
    /\ manualAdded = {}
    /\ result = NoResult
    /\ last = Idle("init")

InitLoad ==
    /\ file \in AllFiles
    /\ db = EmptyDb
    /\ ServiceUp
    /\ Quiet

\* tracked_chat_ids = load_chat_ids()
LoadCall ==
    /\ last.op = "init"
    /\ result' = load_chat_ids(file)
    /\ tracked_chat_ids' = IF result'.raised THEN tracked_chat_ids ELSE result'.ids
    /\ last' = Idle("load")
    /\ JobUnchanged
    /\ ServiceUnchanged
    /\ UNCHANGED <<file, addedInCycle, db>>

SpecLoad == InitLoad /\ [][LoadCall]_vars

\* ------------------------------- compose_new_tickets_summary as a function
InitSummary ==
    /\ file = FileOf("missing", <<>>)
    /\ db \in AllDbs
    /\ ServiceUp
    /\ Quiet

\* text = compose_new_tickets_summary() where query failAt raises.
ComposeCall(failAt) ==
    /\ last.op = "init"
    /\ result' = compose_new_tickets_summary(db, failAt)
    /\ last' = [Idle("summary") EXCEPT !.dbFailed = failAt # 0]
    /\ JobUnchanged
    /\ ServiceUnchanged
    /\ UNCHANGED <<file, tracked_chat_ids, addedInCycle, db>>

NextSummary == \E failAt \in 0..Len(SummaryQueries(db)) : ComposeCall(failAt)

SpecSummary == InitSummary /\ [][NextSummary]_vars

\* ------------------------------------ the itemized composers as functions
InitList ==
    /\ file = FileOf("missing", <<>>)
    /\ db \in ListDbs
    /\ ServiceUp
    /\ Quiet

\* compose_new_tickets_list() where query failAt raises.
NewListCall(failAt) ==
    /\ last.op = "init"
    /\ result' = compose_new_tickets_list(db, failAt)
    /\ last' = [Idle("new_list") EXCEPT !.dbFailed = failAt # 0]
    /\ JobUnchanged
    /\ ServiceUnchanged
    /\ UNCHANGED <<file, tracked_chat_ids, addedInCycle, db>>

\* compose_taken_tickets_list() where query failAt raises.
TakenListCall(failAt) ==
    /\ last.op = "init"
    /\ result' = compose_taken_tickets_list(db, failAt)
    /\ last' = [Idle("taken_list") EXCEPT !.dbFailed = failAt # 0]
    /\ JobUnchanged
    /\ ServiceUnchanged
    /\ UNCHANGED <<file, tracked_chat_ids, addedInCycle, db>>

NextList ==
    \/ \E failAt \in 0..Len(ListQueries(db, db.new, user_ids(db.new))) :
          NewListCall(failAt)
    \/ \E failAt \in 0..Len(ListQueries(db, db.taken,
                                         user_ids(db.taken) \cup specialist_ids(db.taken))) :
          TakenListCall(failAt)

SpecList == InitList /\ [][NextList]_vars

\* ------------------------------------------------ the ticket service alone
InitService ==
    /\ file = FileOf("missing", <<>>)
    /\ db = EmptyDb
    /\ env \in Envs
    /\ ticket_service = NoService
    /\ conn = NoConn
    /\ Quiet

\* if ticket_service is None: ticket_service = get_ticket_service()
Construct(pool_ok) ==
    /\ ~ticket_service.constructed
    /\ LET r == get_ticket_service(env, pool_ok)
       IN /\ ticket_service' = IF r.constructed THEN r ELSE NoService
          /\ last' = [Idle("construct") EXCEPT !.out = r.error, !.raised = ~r.constructed]
    /\ JobUnchanged
    /\ UNCHANGED <<file, tracked_chat_ids, addedInCycle, db, env, conn, result>>

\* A query method up to _execute_query's try: the SQL text is built around the
\* table name and a connection taken from the pool; got says whether the pool
\* can connect.  fetch_users_by_ids of no ids returns before any of it.
QueryBegin(method, no_ids, got) ==
    /\ ticket_service.constructed
    /\ conn.at = "idle"
    /\ no_ids => method = "fetch_users_by_ids"
    /\ LET acquired == ~no_ids /\ got /\ conn.held < pool_size
       IN /\ conn' = IF no_ids THEN [conn EXCEPT !.method = method]
                     ELSE [held |-> IF acquired THEN conn.held + 1 ELSE conn.held,
                           at |-> IF acquired THEN "open" ELSE "idle",
                           method |-> method,
                           sql |-> ticket_service.tables[TableOf(method)]]
          /\ last' = [Idle("query_begin") EXCEPT
                         !.out = IF no_ids THEN "returned" ELSE IF acquired THEN "open"
                                 ELSE "PoolError",
                         !.raised = ~no_ids /\ ~acquired]
    /\ JobUnchanged
    /\ UNCHANGED <<file, tracked_chat_ids, addedInCycle, db, env, ticket_service, result>>

\* The rest of _execute_query: the cursor, the query, the finally clause.
QueryEnd(outcome) ==
    /\ conn.at = "open"
    /\ conn' = [conn EXCEPT !.at = "idle",
                            !.held = IF closes(outcome) THEN @ - 1 ELSE @]
    /\ last' = [Idle("query_end") EXCEPT
                   !.out = outcome, !.raised = outcome \notin {"rows", "no rows"}]
    /\ JobUnchanged
    /\ UNCHANGED <<file, tracked_chat_ids, addedInCycle, db, env, ticket_service, result>>

NextService ==
    \/ \E pool_ok \in BOOLEAN : Construct(pool_ok)
    \/ \E m \in QueryMethods, no_ids \in BOOLEAN, got \in BOOLEAN : QueryBegin(m, no_ids, got)
    \/ \E o \in QueryOutcomes : QueryEnd(o)

SpecService == InitService /\ [][NextService]_vars

\* ================================================================ claims
\* The state right after a cycle of the job ended: at its last send, or at the
\* trigger itself (empty registry, failed digest).
CycleJustEnded == pc = "idle" /\ last.op \in {"send", "trigger"}

\* A step of the send loop: the only steps that attempt a send.
IsSendStep == pc = "sending" /\ attempted' # attempted

\* A trigger of the job.
IsTrigger == pc = "idle" /\ last'.op = "trigger"

\* The chats of the cycle whose send did not raise.
SentOk == attempted \ (permFailed \cup softFailed)

C2_Original == CycleJustEnded => attempted = loaded

\* C2 as amended: in every cycle whose digest was composed the chats a send is
\* attempted to are exactly the ids read from the file at the trigger (the
\* chats sent to and those still to come make up that set all along); a cycle
\* whose digest failed attempts no send.
C2_TargetsFromFile ==
    /\ attempted \subseteq loaded
    /\ pc = "sending" => (attempted \cup pending = loaded /\ attempted \cap pending = {})
    /\ (CycleJustEnded /\ last.op = "send") => attempted = loaded
    /\ (CycleJustEnded /\ last.op = "trigger") =>
          /\ attempted = {}
          /\ last.out \in {"skipped", "job_failed"}
          /\ last.out = "skipped" => loaded = {}

\* A cycle that sent to the two chats the operator's file listed, one of which
\* the process did not hold before the trigger.
C2_Witness ==
    /\ CycleJustEnded
    /\ last.op = "send"
    /\ attempted = {2, 3}
    /\ loaded = {2, 3}
    /\ addedInCycle = {}

\* C3 as stated: an id added to the file by hand is in the registry the next
\* trigger reloads, whatever the bot handled since the edit.
C3_ManualEditTakesEffect ==
    [][IsTrigger => manualAdded \subseteq loaded']_vars

\* C4: a send that fails without a permanent error leaves the registry and the
\* file as they are (the chat stays, nothing is written), and the chat is in the
\* registry the next trigger reloads unless the operator edited the file since
\* the previous trigger.
C4_SoftFailureKeepsChat ==
    [][/\ (IsSendStep /\ last'.out \notin PermanentOutcomes \cup {"ok"}) =>
             /\ last'.chat \in tracked_chat_ids'
             /\ tracked_chat_ids' = tracked_chat_ids
             /\ file' = file
             /\ ~last'.wrote
       /\ (IsTrigger /\ ~edited) => softFailed \subseteq loaded']_vars

\* A cycle ended on a non-Telegram exception, with the chat still registered.
C4_Witness ==
    /\ CycleJustEnded
    /\ last.op = "send"
    /\ last.out = "exception"
    /\ last.chat \in softFailed
    /\ last.chat \in tracked_chat_ids
    /\ last.chat \in load_chat_ids(file).ids

C6_LoadTotal ==
    last.op = "load" =>
        /\ ~result.raised
        /\ result.ids = IF file.kind = "keylist" THEN Range(file.items) ELSE {}

\* C7: a trigger that reloads an empty registry ends the cycle at once: no
\* query, no send, no write, no exception, the job idle; and no send is
\* attempted until the next trigger.
C7_EmptyRegistrySkips ==
    /\ [][(IsTrigger /\ loaded' = {}) =>
             /\ last'.queries = <<>>
             /\ last'.out = "skipped"
             /\ ~last'.raised
             /\ ~last'.wrote
             /\ file' = file
             /\ pc' = "idle"
             /\ pending' = {}
             /\ attempted' = {}]_vars
    /\ [](loaded = {} => (pc = "idle" /\ attempted = {}))

\* A skipped cycle over a file that lists nothing.
C7_Witness ==
    /\ last.op = "trigger"
    /\ last.out = "skipped"
    /\ loaded = {}
    /\ file = FileOf("keylist", <<>>)
    /\ pc = "idle"

\* C8: when a database query raises while a digest handler composes, the handler
\* catches it, replies with its "try again later" message instead of a digest,
\* and returns normally.
C8_DbFailureCaught ==
    (last.op \in DigestCommands /\ last.dbFailed) =>
        /\ last.out = "try_later"
        /\ ~last.raised
        /\ pc = "idle"

\* The menu:taken callback answered "try again later" after its third query
\* raised.
C8_Witness ==
    /\ last.op = "menu:taken"
    /\ last.dbFailed
    /\ Len(last.queries) = 3
    /\ last.out = "try_later"

\* C9: the summary's "new" bucket is the rows of status "available" when there
\* are any and the rows of status "new" otherwise; status "new" is queried only
\* when "available" returned nothing.
C9_NewBucketFallback ==
    last.op = "summary" =>
        /\ ~result.raised =>
              /\ db.available # <<>> => result.bucket = db.available
              /\ db.available = <<>> => result.bucket = db.new
              /\ result.total = Len(result.bucket)
        /\ (db.available # <<>>) => "new" \notin Range(result.queries)
        /\ (db.available = <<>> /\ Len(result.queries) >= 2) => result.queries[2] = "new"

\* The claim's example: "available" empty, "new" with two rows.
C9_Witness ==
    /\ last.op = "summary"
    /\ ~result.raised
    /\ db.available = <<>>
    /\ Len(db.new) = 2
    /\ result.bucket = db.new
    /\ result.total = 2

RowsOfBuilding(rows, b) == {i \in 1..Len(rows) : rows[i].building_id = b}

\* C10: the per-building lines have distinct building ids, none of them null;
\* each line counts the bucket's rows of its building and the "Другое" line the
\* rows without a building; every row's building has a line; the counts of the
\* lines add up to the total in the header.
C10_GroupsPartitionRows ==
    (last.op = "summary" /\ ~result.raised) =>
        LET lines == result.lines
            rows == result.bucket
        IN /\ \A i, j \in 1..Len(lines) : lines[i].key = lines[j].key => i = j
           /\ \A i \in 1..Len(lines) :
                 /\ lines[i].key # None
                 /\ lines[i].count = Cardinality(RowsOfBuilding(rows, lines[i].key))
                 /\ lines[i].count > 0
           /\ result.other = Cardinality(RowsOfBuilding(rows, None))
           /\ \A r \in 1..Len(rows) :
                 rows[r].building_id # None =>
                    \E i \in 1..Len(lines) : lines[i].key = rows[r].building_id
           /\ SumSeq([i \in 1..Len(lines) |-> lines[i].count]) + result.other
                 = result.total
           /\ result.total = Len(rows)

\* A bucket of two rows, one of a building and one without.
C10_Witness ==
    /\ last.op = "summary"
    /\ ~result.raised
    /\ Len(result.lines) = 1
    /\ result.other = 1
    /\ result.total = 2

\* The text of value with every "&", "<", ">" turned into its entity, piece by
\* piece.
RECURSIVE Escaped(_)
Escaped(value) ==
    IF value = <<>> THEN <<>>
    ELSE (IF Head(value) = "&" THEN <<"&", "amp;">>
          ELSE IF Head(value) = "<" THEN <<"&", "lt;">>
          ELSE IF Head(value) = ">" THEN <<"&", "gt;">>
          ELSE <<Head(value)>>) \o Escaped(Tail(value))

ListDone == last.op \in {"new_list", "taken_list"} /\ ~result.raised

ListRows == IF last.op = "new_list" THEN db.new ELSE db.taken

\* C11: every line of every ticket block of an itemized list embeds its value
\* with each "&" as "&amp;", each "<" as "&lt;" and each ">" as "&gt;", the
\* entities themselves not escaped again; the embedded text has no raw "<" or
\* ">"; the description line is the ticket's description (or its placeholder)
\* so escaped, and <script>&</script> is embedded as
\* &lt;script&gt;&amp;&lt;/script&gt;.
C11_FieldsEscaped ==
    ListDone =>
        \A i \in 1..Len(result.blocks) :
            /\ \A k \in 1..Len(result.blocks[i]) :
                  LET line == result.blocks[i][k]
                  IN /\ line.text = Escaped(line.value)
                     /\ "<" \notin Range(line.text)
                     /\ ">" \notin Range(line.text)
            /\ \E k \in 1..Len(result.blocks[i]) :
                  LET line == result.blocks[i][k]
                  IN /\ line.field = "description"
                     /\ line.value = (IF ListRows[i].description = <<>>
                                      THEN <<"not specified">>
                                      ELSE ListRows[i].description)
                     /\ (line.value = ScriptText =>
                            line.text = <<"&", "lt;", "script", "&", "gt;", "&", "amp;",
                                          "&", "lt;", "/script", "&", "gt;">>)

\* A taken list whose ticket's description is <script>&</script>.
C11_Witness ==
    /\ last.op = "taken_list"
    /\ ~result.raised
    /\ Len(result.blocks) = 1
    /\ db.taken[1].description = ScriptText
    /\ \E k \in 1..Len(result.blocks[1]) :
          /\ result.blocks[1][k].field = "description"
          /\ result.blocks[1][k].text =
                <<"&", "lt;", "script", "&", "gt;", "&", "amp;",
                  "&", "lt;", "/script", "&", "gt;">>

\* C12 as stated: an itemized composer whose ticket fetch returns nothing
\* returns the zero-count line alone, having issued no query but that fetch;
\* one whose fetch returns n > 0 tickets (and whose lookups all succeed) returns
\* the count line showing n followed by n ticket blocks.
C12_CountLineAndBlocks ==
    (last.op \in {"new_list", "taken_list"} /\ ~last.dbFailed) =>
        /\ ~result.raised
        /\ result.count = Len(ListRows)
        /\ Len(result.blocks) = Len(ListRows)
        /\ ListRows = <<>> => result.queries = <<"tickets">>

\* C20 as stated: when all its fetches succeed the itemized taken composer
\* returns a digest with one block per taken ticket, whatever the fetched data;
\* a ticket whose specialist has no row in users gets its block all the same,
\* with a specialist line.
C20_TakenListTotal ==
    (last.op = "taken_list" /\ ~last.dbFailed) =>
        /\ ~result.raised
        /\ Len(result.blocks) = Len(db.taken)
        /\ \A i \in 1..Len(db.taken) :
              \E k \in 1..Len(result.blocks[i]) :
                  /\ result.blocks[i][k].field = "specialist"
                  /\ result.blocks[i][k].value # <<>>

\* C13 as stated: the service is constructed only when each of the five table
\* names is made of letters, digits and underscores, so that the table name in
\* any SQL text built is such a name.
C13_TableNamesValidated ==
    /\ ticket_service.constructed =>
          \A t \in Tables :
              \A i \in 1..Len(ticket_service.tables[t]) :
                  ticket_service.tables[t][i] \notin NonAlnum \ {"_"}
    /\ \A i \in 1..Len(conn.sql) : conn.sql[i] \notin NonAlnum \ {"_"}

\* C16: every connection _execute_query takes from the pool is closed when the
\* call returns, whether the query returned rows or raised: no connection is
\* held between calls, and at most one during a call.
C16_ConnectionReleased ==
    /\ conn.at = "idle" => conn.held = 0
    /\ conn.at = "open" => conn.held = 1
    /\ conn.held <= 1

\* A query that raised inside the try and left no connection held.
C16_Witness ==
    /\ last.op = "query_end"
    /\ last.raised
    /\ last.out = "execute raises"
    /\ conn.at = "idle"
    /\ conn.held = 0

\* C14 as stated: in every cycle each chat of the registry loaded at the trigger
\* gets a send attempt.
C14_Original == CycleJustEnded => \A c \in loaded : c \in attempted

\* C14 as amended: in a cycle whose digest was composed every chat of the
\* registry loaded at the trigger gets exactly one send attempt: each pass of
\* the loop sends to a loaded chat not attempted before and, whatever the send's
\* outcome, leaves all the other chats still to come; the chats to come are
\* always the loaded ones not yet attempted; the job is idle as soon as none is
\* left.  A cycle whose digest failed attempts no send.
C14_OneAttemptEach ==
    /\ [][(pc = "sending" /\ last'.op = "send") =>
             /\ last'.chat \in loaded
             /\ last'.chat \notin attempted
             /\ attempted' = attempted \cup {last'.chat}
             /\ pending' = pending \ {last'.chat}
             /\ pc' = (IF pending' = {} THEN "idle" ELSE "sending")]_vars
    /\ [](pc = "sending" => (pending = loaded \ attempted /\ pending # {}))
    /\ []((permFailed \cup softFailed) \subseteq attempted)
    /\ []((CycleJustEnded /\ last.op = "send") => (attempted = loaded /\ pending = {}))
    /\ []((CycleJustEnded /\ last.op = "trigger") => attempted = {})

\* A cycle over {1,2,3} that ended after a permanent failure, another failure
\* and a last send.
C14_Witness ==
    /\ CycleJustEnded
    /\ last.op = "send"
    /\ loaded = {1, 2, 3}
    /\ attempted = {1, 2, 3}
    /\ Cardinality(permFailed) = 1
    /\ Cardinality(softFailed) = 1
    /\ successful_sends = 1

\* C15: a cycle over a non-empty registry composes the digest once, in the
\* trigger step (after the reload, before any send): the trigger issues the
\* composer's queries once and no send step issues any; the composed text stays
\* as it is while the sends are in progress, whatever happens to the tickets,
\* and every send carries it.
C15_OneDigestPerCycle ==
    /\ [][(IsTrigger /\ pc' = "sending") =>
             /\ last'.queries = SummaryQueries(db)
             /\ text'.queries = last'.queries
             /\ ~text'.raised
             /\ tracked_chat_ids' = load_chat_ids(file).ids
             /\ attempted' = {}]_vars
    /\ [][(pc = "sending" /\ pc' = "sending") => text' = text]_vars
    /\ [][(pc = "sending" /\ last'.op = "send") =>
             /\ last'.sent = text
             /\ last'.queries = <<>>]_vars

\* The second send of a cycle, carrying a digest that the tickets as they now
\* are would no longer give.
C15_Witness ==
    /\ last.op = "send"
    /\ Cardinality(attempted) = 2
    /\ ~last.sent.raised
    /\ last.sent.total = 2
    /\ compose_new_tickets_summary(db, 0).total # 2

\* C19: when a fetch of compose_new_tickets_summary raises in a cycle over a
\* non-empty registry, the job ends there: the trigger step leaves the job idle
\* with no chat to send to and no send attempted, the file is not written, the
\* registry is the one just reloaded from the file, nothing is raised out of the
\* job; and no send is attempted until another trigger.
C19_ComposeFailureContained ==
    /\ [][(IsTrigger /\ last'.dbFailed) =>
             /\ last'.out = "job_failed"
             /\ ~last'.raised
             /\ ~last'.wrote
             /\ file' = file
             /\ tracked_chat_ids' = load_chat_ids(file).ids
             /\ tracked_chat_ids' # {}
             /\ pending' = {}
             /\ attempted' = {}
             /\ pc' = "idle"]_vars
    /\ []((last.op = "trigger" /\ last.out = "job_failed") =>
             (pc = "idle" /\ attempted = {} /\ successful_sends = 0 /\ failed_sends = 0))
    /\ [][(pc = "idle" /\ ~IsTrigger) => attempted' = attempted]_vars

\* A cycle over {1, 2} that failed at the second query of the digest and left
\* the registry and the file as they were.
C19_Witness ==
    /\ last.op = "trigger"
    /\ last.out = "job_failed"
    /\ last.dbFailed
    /\ Len(last.queries) = 2
    /\ loaded = {1, 2}
    /\ tracked_chat_ids = {1, 2}
    /\ load_chat_ids(file).ids = {1, 2}
    /\ pc = "idle"

TakenPairs(rows) ==
    {<<rows[i].specialist_id, rows[i].building_id>> : i \in 1..Len(rows)}
    \ {<<None, b>> : b \in BuildingIds \cup {None}}

RowsOfPair(rows, k) ==
    {i \in 1..Len(rows) : rows[i].specialist_id = k[1] /\ rows[i].building_id = k[2]}

\* C17 as stated: for any taken rows the summary (its fetches succeeding) has
\* one in-progress line for every distinct (specialist, building) pair of the
\* rows with a specialist, carrying the number of the pair's rows, the lines
\* ordered by specialist and then building; also when one specialist has rows
\* with a building and rows without; a specialist missing from users is shown
\* by id.
C17_TakenBreakdown ==
    (last.op = "summary" /\ ~last.dbFailed) =>
        /\ ~result.raised
        /\ {<<result.taken[i].specialist, result.taken[i].building>> :
               i \in 1..Len(result.taken)} = TakenPairs(db.taken)
        /\ Len(result.taken) = Cardinality(TakenPairs(db.taken))
        /\ \A i \in 1..Len(result.taken) :
              /\ result.taken[i].count =
                    Cardinality(RowsOfPair(db.taken, <<result.taken[i].specialist,
                                                       result.taken[i].building>>))
              /\ result.taken[i].known = (result.taken[i].specialist \in db.users)
        /\ \A i, j \in 1..Len(result.taken) :
              i < j => result.taken[i].specialist <= result.taken[j].specialist

====
